---- MODULE Spec2Model ----
(***************************************************************************)
(* A model of the andex crate: the bounded array index Andex<M, SIZE>,     *)
(* its iterator AndexIterator and the array wrapper AndexableArray.        *)
(*                                                                         *)
(* src/src/andex.rs is the module version of the crate (Andex::next,       *)
(* iterator cursor Option<Andex>); src/src/lib.rs is the crate-root        *)
(* version (iterator cursor Option<usize>).  Where the two differ both are *)
(* modelled, the lib.rs definitions carrying the prefix Lib.               *)
(***************************************************************************)
EXTENDS Integers, Sequences, FiniteSets

(***************************************************************************)
(* Bounds of the model.                                                    *)
(***************************************************************************)
\* usize is modelled with a scaled-down range 0..MaxUsize; unchecked
\* arithmetic wraps modulo MaxUsize + 1.
MaxUsize == 7
\* The const generic SIZE ranges over 0..MaxSize.
MaxSize == 3
\* Longest text handed to from_str.
MaxLen == 2
\* Number of calls of Iterator::next made on one iterator.
MaxCalls == 5
\* The items stored in an array are 0..MaxItem.
MaxItem == 1

Usize == 0..MaxUsize
Items == 0..MaxItem
Regs == {"a", "b"}
Modulus == MaxUsize + 1

VARIABLES
    SIZE,             \* the const generic parameter SIZE of the index type
    overflow_checks,  \* build profile: TRUE = debug (overflow panics), FALSE = release (wraps)
    reg,              \* the caller's index variables: reg[r] is an Option<Andex>
    res,              \* the outcome of the last operation, as seen by the caller
    it,               \* andex.rs AndexIterator: <<>> before iter(), else <<cursor>>, cursor an Option<Andex>
    it_out,           \* the results of the calls of next on `it`, in order
    lit,              \* lib.rs AndexIterator: <<>> before iter(), else <<next>>, next an Option<usize>
    lit_out,          \* the results of the calls of next on `lit`, in order
    arr,              \* AndexableArray<Andex<M, SIZE>, u32, SIZE>: the backing array [Item; SIZE]
    access,           \* the last get_unchecked / get_unchecked_mut call: an Option of [pos, len]
    pc,               \* where the calling program is: "start", "write", "read", "done" or "panicked"
    readback,         \* the items the calling program has read back from the array, in order
    plain,            \* the caller's plain array [Item; SIZE]: an Option, None before it is built
    it2,              \* a second andex.rs AndexIterator, from another call of iter(): <<>> or <<cursor>>
    it2_out           \* the results of the calls of next on `it2`, in order

buildVars == <<SIZE, overflow_checks>>
idxVars   == <<reg, res>>
iterVars  == <<it, it_out, lit, lit_out>>
arrVars   == <<arr, access>>
progVars  == <<pc, readback>>
localVars == <<plain, it2, it2_out>>
vars == <<SIZE, overflow_checks, reg, res, it, it_out, lit, lit_out, arr, access, pc, readback,
          plain, it2, it2_out>>

(***************************************************************************)
(* Values of the Rust types.                                               *)
(***************************************************************************)
\* Option<T>
None == <<>>
Some(x) == <<x>>
IsSome(o) == Len(o) = 1
Unwrap(o) == o[1]

\* struct Andex(PhantomData<M>, usize): field .0 is TLA+ index 1, field .1 index 2.
PhantomData == "PhantomData"
Andex(v) == <<PhantomData, v>>

\* Result<T, Error>, and the two outcomes that return nothing to the caller.
Ok(x) == [tag |-> "Ok", val |-> x]
Err(e) == [tag |-> "Err", val |-> e]
Panic(msg) == [tag |-> "Panic", val |-> msg]
BuildError(msg) == [tag |-> "BuildError", val |-> msg]

\* enum Error
OutOfBounds(value, size) == [kind |-> "OutOfBounds", value |-> value, size |-> size]
ParseIntError(err) == [kind |-> "ParseIntError", value |-> err, size |-> 0]

(***************************************************************************)
(* usize arithmetic.  A subtraction that leaves 0..MaxUsize panics when    *)
(* the build has overflow checks and wraps when it has not.                *)
(***************************************************************************)
SubOverflows(x, y) == x < y
WrappingSub(x, y) == (x - y + Modulus) % Modulus

(***************************************************************************)
(* Andex: associated constants and methods.                                *)
(***************************************************************************)
\* impl From<Andex> for usize / From<&Andex> for usize: andex.1
UsizeFrom(andex) == andex[2]

\* pub const FIRST
FIRST == Ok(Andex(0))

\* pub const LAST: SIZE - 1 is evaluated by the compiler; with SIZE = 0 the
\* evaluation of the constant fails and a use of LAST does not build.
LAST(size) ==
    IF SubOverflows(size, 1)
    THEN BuildError("attempt to compute SIZE - 1, which would overflow")
    ELSE Ok(Andex(size - 1))

\* pub const fn new<const N: usize>(): ASSERT has length 1 and is indexed by
\* (N >= SIZE) as usize.  Evaluated in a const context an out-of-bounds index
\* is a build error, evaluated at run time it is a panic.
AssertLen == 1
\* (mutant of AssertIndex: the comparison is strict)
AssertIndexStrict(n, size) == IF n > size THEN 1 ELSE 0
AssertIndex(n, size) == IF n >= size THEN 1 ELSE 0
\* (mutant of new: the ASSERT line is missing)
newUnchecked(n, size, const_ctx) == Ok(Andex(n))
new(n, size, const_ctx) ==
    IF AssertIndex(n, size) >= AssertLen
    THEN IF const_ctx
         THEN BuildError("index out of bounds")
         ELSE Panic("index out of bounds")
    ELSE Ok(Andex(n))

\* impl Default for Andex
default == Ok(Andex(0))

\* impl Clone for Andex: *self
clone(self) == Ok(self)

\* (mutant of try_from: the bound is inclusive)
try_fromInclusive(value, size) ==
    IF value <= size
    THEN Ok(Andex(value))
    ELSE Err(OutOfBounds(value, size))
\* (mutant of try_from: the fields of the error are swapped)
try_fromSwapped(value, size) ==
    IF value < size
    THEN Ok(Andex(value))
    ELSE Err(OutOfBounds(size, value))

\* impl TryFrom<usize> for Andex
try_from(value, size) ==
    IF value < size
    THEN Ok(Andex(value))
    ELSE Err(OutOfBounds(value, size))

\* (mutant of pair: the stored value is not subtracted)
pairLast(self, size, checks) == Ok(Andex(size - 1))
\* (mutant of pair: the final - 1 is missing)
pairOffByOne(self, size, checks) == Ok(Andex(size - self[2]))
\* pub const fn pair(self): SIZE - self.1 - 1, called at run time
pair(self, size, checks) ==
    IF SubOverflows(size, self[2]) \/ SubOverflows(WrappingSub(size, self[2]), 1)
    THEN IF checks
         THEN Panic("attempt to subtract with overflow")
         ELSE Ok(Andex(WrappingSub(WrappingSub(size, self[2]), 1)))
    ELSE Ok(Andex(size - self[2] - 1))

\* pub fn next(self) -> Option<Self>: if i < SIZE - 1 { Some(i + 1) } else { None }
next(self, size, checks) ==
    LET i == UsizeFrom(self) IN
    IF SubOverflows(size, 1) /\ checks
    THEN Panic("attempt to subtract with overflow")
    ELSE IF i < WrappingSub(size, 1)
         THEN Ok(Some(Andex(i + 1)))
         ELSE Ok(None)

\* impl PartialEq for Andex (andex.rs): self.1 == other.1
eq(self, other) == self[2] = other[2]

\* impl PartialEq for Andex (lib.rs): self.0 == other.0, the PhantomData fields
LibEq(self, other) == self[1] = other[1]

\* usize::cmp
UsizeCmp(x, y) == IF x < y THEN "Less" ELSE IF x = y THEN "Equal" ELSE "Greater"

\* (mutant of cmp: the PhantomData fields are compared, as in the eq of lib.rs)
cmpPhantom(self, other) == IF self[1] = other[1] THEN "Equal" ELSE "Less"
\* impl Ord for Andex (andex.rs and lib.rs): self.1.cmp(&other.1)
cmp(self, other) == UsizeCmp(self[2], other[2])

\* impl PartialOrd for Andex: Some(self.cmp(other))
partial_cmp(self, other) == Some(cmp(self, other))

\* The operators < and <= that PartialOrd provides from partial_cmp.
lt(self, other) == partial_cmp(self, other) = Some("Less")
le(self, other) == partial_cmp(self, other) \in {Some("Less"), Some("Equal")}

(***************************************************************************)
(* Text to integer: usize::from_str (radix 10), as called by from_str.     *)
(***************************************************************************)
Chars == {"0", "1", "2", "3", "4", "9", "+", "-", "a", " "}
Digits == {"0", "1", "2", "3", "4", "9"}
ToDigit(c) ==
    CASE c = "0" -> 0 [] c = "1" -> 1 [] c = "2" -> 2
      [] c = "3" -> 3 [] c = "4" -> 4 [] c = "9" -> 9

Texts == UNION {[1..n -> Chars] : n \in 0..MaxLen}
\* The texts of at most one character: enough to write every index 0..4.
ShortTexts == UNION {[1..n -> Chars] : n \in 0..1}

\* (mutant of ParseDigits: the addition of the digit is not checked)
RECURSIVE ParseDigitsUncheckedAdd(_, _)
ParseDigitsUncheckedAdd(digits, result) ==
    IF digits = <<>>
    THEN Ok(result)
    ELSE IF Head(digits) \notin Digits
         THEN Err("InvalidDigit")
         ELSE IF result * 10 > MaxUsize
              THEN Err("PosOverflow")
              ELSE ParseDigitsUncheckedAdd(Tail(digits), result * 10 + ToDigit(Head(digits)))

\* The digit loop: result = result.checked_mul(10)?.checked_add(digit)?
RECURSIVE ParseDigits(_, _)
ParseDigits(digits, result) ==
    IF digits = <<>>
    THEN Ok(result)
    ELSE IF Head(digits) \notin Digits
         THEN Err("InvalidDigit")
         ELSE IF result * 10 > MaxUsize \/ result * 10 + ToDigit(Head(digits)) > MaxUsize
              THEN Err("PosOverflow")
              ELSE ParseDigits(Tail(digits), result * 10 + ToDigit(Head(digits)))

\* (mutant of UsizeFromStr: a leading '-' is dropped like a leading '+')
UsizeFromStrSigned(s) ==
    IF s = <<>>
    THEN Err("Empty")
    ELSE IF Len(s) = 1 /\ Head(s) \in {"+", "-"}
         THEN Err("InvalidDigit")
         ELSE IF Head(s) \in {"+", "-"}
              THEN ParseDigits(Tail(s), 0)
              ELSE ParseDigits(s, 0)

\* usize::from_str: empty text, a lone sign, an optional leading '+', digits
UsizeFromStr(s) ==
    IF s = <<>>
    THEN Err("Empty")
    ELSE IF Len(s) = 1 /\ Head(s) \in {"+", "-"}
         THEN Err("InvalidDigit")
         ELSE IF Head(s) = "+"
              THEN ParseDigits(Tail(s), 0)
              ELSE ParseDigits(s, 0)

\* (mutant of from_str: the parsed value is not range-checked)
from_strNoRange(s, size) ==
    LET parsed == UsizeFromStr(s) IN
    IF parsed.tag = "Err"
    THEN Err(ParseIntError(parsed.val))
    ELSE Ok(Andex(parsed.val))

\* impl FromStr for Andex: Self::try_from(usize::from_str(s)?)
from_str(s, size) ==
    LET parsed == UsizeFromStr(s) IN
    IF parsed.tag = "Err"
    THEN Err(ParseIntError(parsed.val))
    ELSE try_from(parsed.val, size)

(***************************************************************************)
(* AndexIterator.                                                          *)
(***************************************************************************)
\* andex.rs, impl Default for AndexIterator: AndexIterator(Some(Andex::default()))
IterDefault == Some(default.val)

\* (mutant of IterNext: an exhausted iterator is reset to its start)
IterNextRestart(cursor, size, checks) ==
    IF IsSome(cursor)
    THEN LET i == Unwrap(cursor)
             n == next(i, size, checks)
         IN IF n.tag = "Panic"
            THEN [cursor |-> None, ret |-> n]
            ELSE [cursor |-> n.val, ret |-> Ok(Some(i))]
    ELSE [cursor |-> IterDefault, ret |-> Ok(None)]

\* andex.rs, impl Iterator for AndexIterator: the cursor is taken, then
\* replaced by i.next(); a panic in i.next() leaves the cursor taken.
IterNext(cursor, size, checks) ==
    IF IsSome(cursor)
    THEN LET i == Unwrap(cursor)
             n == next(i, size, checks)
         IN IF n.tag = "Panic"
            THEN [cursor |-> None, ret |-> n]
            ELSE [cursor |-> n.val, ret |-> Ok(Some(i))]
    ELSE [cursor |-> None, ret |-> Ok(None)]

\* lib.rs, impl Default for AndexIterator: next: Some(0)
LibIterDefault == Some(0)

\* lib.rs, impl Iterator for AndexIterator: A::try_from(i).ok()
LibIterNext(nxt, size) ==
    IF IsSome(nxt)
    THEN LET i == Unwrap(nxt)
             value == try_from(i, size)
         IN IF value.tag = "Ok"
            THEN [cursor |-> Some(i + 1), ret |-> Ok(Some(value.val))]
            ELSE [cursor |-> None, ret |-> Ok(None)]
    ELSE [cursor |-> None, ret |-> Ok(None)]

\* The results of the first k calls of next on a fresh andex.rs iterator.
RECURSIVE IterRun(_, _, _, _)
IterRun(cursor, size, checks, k) ==
    IF k = 0
    THEN <<>>
    ELSE LET step == IterNext(cursor, size, checks)
         IN <<step.ret>> \o IterRun(step.cursor, size, checks, k - 1)

(***************************************************************************)
(* AndexableArray.                                                         *)
(***************************************************************************)
\* impl Default for AndexableArray: [Default::default(); SIZE]
ArrayDefault(size) == [k \in 1..size |-> 0]

\* slice::get_unchecked(index): defined when index < len, undefined
\* behaviour otherwise (any item may be read).
GetUnchecked(array, index) ==
    IF index < Len(array)
    THEN {Ok(array[index + 1])}
    ELSE {[tag |-> "UB", val |-> x] : x \in Items}

\* (mutant of SetUnchecked: the write also lands in the first slot)
SetUncheckedSpill(array, index, x) ==
    IF index < Len(array)
    THEN [[array EXCEPT ![index + 1] = x] EXCEPT ![1] = x]
    ELSE array

\* slice::get_unchecked_mut(index) followed by the assignment of x.
SetUnchecked(array, index, x) ==
    IF index < Len(array)
    THEN [array EXCEPT ![index + 1] = x]
    ELSE array

\* Andex::index_arr / Andex::index_arr_mut: the position handed to get_unchecked
index_arr(self) == UsizeFrom(self)

\* impl AsRef<[Item; SIZE]> for AndexableArray: &self.1
as_ref(array) == array

\* AndexableArray::iter / IntoIterator for &AndexableArray: self.1.iter(),
\* the items from the first slot to the last.
RECURSIVE ArrayIter(_)
ArrayIter(array) ==
    IF array = <<>> THEN <<>> ELSE <<Head(array)>> \o ArrayIter(Tail(array))

\* A slot of the [MaybeUninit<Item>; SIZE] that has not been written.
Uninit == -1

\* (mutant of FromIterLoop: the slots are filled from the last to the first)
RECURSIVE FromIterLoopReversed(_, _, _)
FromIterLoopReversed(andexable, iter, k) ==
    IF k > Len(andexable)
    THEN Ok([array |-> andexable, iter |-> iter])
    ELSE IF iter = <<>>
         THEN Panic("iterator too short for andexable type")
         ELSE FromIterLoopReversed(
                  [andexable EXCEPT ![Len(andexable) + 1 - k] = Head(iter)], Tail(iter), k + 1)

\* from_iter: for item in &mut andexable { item.write(iter.next() or panic) },
\* from slot k on; iter is what the source has not yielded yet.
RECURSIVE FromIterLoop(_, _, _)
FromIterLoop(andexable, iter, k) ==
    IF k > Len(andexable)
    THEN Ok([array |-> andexable, iter |-> iter])
    ELSE IF iter = <<>>
         THEN Panic("iterator too short for andexable type")
         ELSE FromIterLoop([andexable EXCEPT ![k] = Head(iter)], Tail(iter), k + 1)

\* (mutant of from_iter: the items left in the source are not looked at)
from_iterTruncating(intoiter, size) ==
    LET filled == FromIterLoop([k \in 1..size |-> Uninit], intoiter, 1) IN
    IF filled.tag = "Panic"
    THEN filled
    ELSE Ok(filled.val.array)

\* impl FromIterator<Item> for AndexableArray
from_iter(intoiter, size) ==
    LET filled == FromIterLoop([k \in 1..size |-> Uninit], intoiter, 1) IN
    IF filled.tag = "Panic"
    THEN filled
    ELSE IF filled.val.iter # <<>>
         THEN Panic("iterator too long for andexable type")
         ELSE Ok(filled.val.array)

\* impl FromIterator<&Item> for AndexableArray: the same loop, each item copied
from_iter_ref(intoiter, size) ==
    LET filled == FromIterLoop([k \in 1..size |-> Uninit], intoiter, 1) IN
    IF filled.tag = "Panic"
    THEN filled
    ELSE IF filled.val.iter # <<>>
         THEN Panic("iterator too long for andexable type")
         ELSE Ok(filled.val.array)

\* The sequences handed to collect: up to SIZE + 1 items.
Sources == UNION {[1..n -> Items] : n \in 0..(MaxSize + 1)}

(***************************************************************************)
(* The state after construction: a build of the crate for one SIZE, a      *)
(* caller with no index yet, a default-filled array, no iterator.          *)
(***************************************************************************)
Init ==
    /\ SIZE \in 0..MaxSize
    /\ overflow_checks \in BOOLEAN
    /\ reg = [r \in Regs |-> None]
    /\ res = [op |-> "none", arg |-> <<>>, ret |-> Ok(<<>>)]
    /\ it = <<>>
    /\ it_out = <<>>
    /\ lit = <<>>
    /\ lit_out = <<>>
    /\ arr = ArrayDefault(SIZE)
    /\ access = None
    /\ pc = "start"
    /\ readback = <<>>
    /\ plain = None
    /\ it2 = <<>>
    /\ it2_out = <<>>

\* The caller binds the index of an Ok result to the variable r.
Store(r, ret) == IF ret.tag = "Ok" THEN [reg EXCEPT ![r] = Some(ret.val)] ELSE reg

(***************************************************************************)
(* Operations on indices.                                                  *)
(***************************************************************************)
First(r) ==
    /\ res' = [op |-> "FIRST", arg |-> <<>>, ret |-> FIRST]
    /\ reg' = Store(r, FIRST)
    /\ UNCHANGED <<progVars, buildVars, localVars, iterVars, arrVars>>

Last(r) ==
    /\ res' = [op |-> "LAST", arg |-> <<>>, ret |-> LAST(SIZE)]
    /\ reg' = Store(r, LAST(SIZE))
    /\ UNCHANGED <<progVars, buildVars, localVars, iterVars, arrVars>>

New(r, n, const_ctx) ==
    /\ res' = [op |-> "new", arg |-> <<n, const_ctx>>, ret |-> new(n, SIZE, const_ctx)]
    /\ reg' = Store(r, new(n, SIZE, const_ctx))
    /\ UNCHANGED <<progVars, buildVars, localVars, iterVars, arrVars>>

Default(r) ==
    /\ res' = [op |-> "default", arg |-> <<>>, ret |-> default]
    /\ reg' = Store(r, default)
    /\ UNCHANGED <<progVars, buildVars, localVars, iterVars, arrVars>>

Clone(r, s) ==
    /\ IsSome(reg[s])
    /\ res' = [op |-> "clone", arg |-> Unwrap(reg[s]), ret |-> clone(Unwrap(reg[s]))]
    /\ reg' = Store(r, clone(Unwrap(reg[s])))
    /\ UNCHANGED <<progVars, buildVars, localVars, iterVars, arrVars>>

TryFrom(r, value) ==
    /\ res' = [op |-> "try_from", arg |-> value, ret |-> try_from(value, SIZE)]
    /\ reg' = Store(r, try_from(value, SIZE))
    /\ UNCHANGED <<progVars, buildVars, localVars, iterVars, arrVars>>

FromStr(r, s) ==
    /\ res' = [op |-> "from_str", arg |-> s, ret |-> from_str(s, SIZE)]
    /\ reg' = Store(r, from_str(s, SIZE))
    /\ UNCHANGED <<progVars, buildVars, localVars, iterVars, arrVars>>

Pair(r, s) ==
    /\ IsSome(reg[s])
    /\ LET ret == pair(Unwrap(reg[s]), SIZE, overflow_checks)
       IN /\ res' = [op |-> "pair", arg |-> Unwrap(reg[s]), ret |-> ret]
          /\ reg' = Store(r, ret)
    /\ UNCHANGED <<progVars, buildVars, localVars, iterVars, arrVars>>

\* if let Some(n) = reg[s].next() { reg[r] = n }
NextOf(r, s) ==
    /\ IsSome(reg[s])
    /\ LET ret == next(Unwrap(reg[s]), SIZE, overflow_checks)
       IN /\ res' = [op |-> "next", arg |-> Unwrap(reg[s]), ret |-> ret]
          /\ reg' = IF ret.tag = "Ok" /\ IsSome(ret.val)
                    THEN [reg EXCEPT ![r] = ret.val]
                    ELSE reg
    /\ UNCHANGED <<progVars, buildVars, localVars, iterVars, arrVars>>

\* for i in Andex::iter(): the variable r is bound to the item returned by
\* the k-th call of next on a fresh iterator.
IterItem(r, k) ==
    /\ LET out == IterRun(IterDefault, SIZE, overflow_checks, k)
           ret == out[k]
       IN /\ \A j \in 1..(k - 1) : out[j].tag = "Ok" /\ IsSome(out[j].val)
          /\ res' = [op |-> "iter", arg |-> k, ret |-> ret]
          /\ reg' = IF ret.tag = "Ok" /\ IsSome(ret.val)
                    THEN [reg EXCEPT ![r] = ret.val]
                    ELSE reg
    /\ UNCHANGED <<progVars, buildVars, localVars, iterVars, arrVars>>

\* reg[s] == reg[t], with the PartialEq of andex.rs
Eq(s, t) ==
    /\ IsSome(reg[s]) /\ IsSome(reg[t])
    /\ res' = [op |-> "eq", arg |-> <<Unwrap(reg[s]), Unwrap(reg[t])>>,
               ret |-> Ok(eq(Unwrap(reg[s]), Unwrap(reg[t])))]
    /\ UNCHANGED <<progVars, buildVars, localVars, reg, iterVars, arrVars>>

\* reg[s] == reg[t], with the PartialEq of lib.rs
LibEqOf(s, t) ==
    /\ IsSome(reg[s]) /\ IsSome(reg[t])
    /\ res' = [op |-> "lib_eq", arg |-> <<Unwrap(reg[s]), Unwrap(reg[t])>>,
               ret |-> Ok(LibEq(Unwrap(reg[s]), Unwrap(reg[t])))]
    /\ UNCHANGED <<progVars, buildVars, localVars, reg, iterVars, arrVars>>

\* reg[s] < reg[t], reg[s] <= reg[t] and reg[s].cmp(&reg[t])
Cmp(s, t) ==
    /\ IsSome(reg[s]) /\ IsSome(reg[t])
    /\ res' = [op |-> "cmp", arg |-> <<Unwrap(reg[s]), Unwrap(reg[t])>>,
               ret |-> Ok([lt |-> lt(Unwrap(reg[s]), Unwrap(reg[t])),
                           le |-> le(Unwrap(reg[s]), Unwrap(reg[t])),
                           ord |-> cmp(Unwrap(reg[s]), Unwrap(reg[t]))])]
    /\ UNCHANGED <<progVars, buildVars, localVars, reg, iterVars, arrVars>>

\* arr[reg[s]]: impl Index<Andex> for AndexableArray
Index(s) ==
    /\ IsSome(reg[s])
    /\ LET pos == index_arr(Unwrap(reg[s]))
       IN /\ access' = Some([pos |-> pos, len |-> Len(arr)])
          /\ \E ret \in GetUnchecked(arr, pos) :
                res' = [op |-> "index", arg |-> Unwrap(reg[s]), ret |-> ret]
    /\ UNCHANGED <<progVars, buildVars, localVars, reg, iterVars, arr>>

\* arr[reg[s]] = x: impl IndexMut<Andex> for AndexableArray
IndexMut(s, x) ==
    /\ IsSome(reg[s])
    /\ LET pos == index_arr(Unwrap(reg[s]))
       IN /\ access' = Some([pos |-> pos, len |-> Len(arr)])
          /\ arr' = SetUnchecked(arr, pos, x)
          /\ res' = [op |-> "index_mut", arg |-> <<Unwrap(reg[s]), x>>,
                     ret |-> IF pos < Len(arr) THEN Ok(x) ELSE [tag |-> "UB", val |-> x]]
    /\ UNCHANGED <<progVars, buildVars, localVars, reg, iterVars>>

\* arr[&reg[s]]: impl Index<&Andex> for AndexableArray
IndexRef(s) ==
    /\ IsSome(reg[s])
    /\ LET pos == index_arr(Unwrap(reg[s]))
       IN /\ access' = Some([pos |-> pos, len |-> Len(arr)])
          /\ \E ret \in GetUnchecked(arr, pos) :
                res' = [op |-> "index_ref", arg |-> Unwrap(reg[s]), ret |-> ret]
    /\ UNCHANGED <<progVars, buildVars, localVars, reg, iterVars, arr>>

\* arr[&reg[s]] = x: impl IndexMut<&Andex> for AndexableArray
IndexMutRef(s, x) ==
    /\ IsSome(reg[s])
    /\ LET pos == index_arr(Unwrap(reg[s]))
       IN /\ access' = Some([pos |-> pos, len |-> Len(arr)])
          /\ arr' = SetUnchecked(arr, pos, x)
          /\ res' = [op |-> "index_mut_ref", arg |-> <<Unwrap(reg[s]), x>>,
                     ret |-> IF pos < Len(arr) THEN Ok(x) ELSE [tag |-> "UB", val |-> x]]
    /\ UNCHANGED <<progVars, buildVars, localVars, reg, iterVars>>

Next ==
    \/ \E r \in Regs : First(r)
    \/ \E r \in Regs : Last(r)
    \/ \E r \in Regs, n \in Usize, const_ctx \in BOOLEAN : New(r, n, const_ctx)
    \/ \E r \in Regs : Default(r)
    \/ \E r, s \in Regs : Clone(r, s)
    \/ \E r \in Regs, value \in Usize : TryFrom(r, value)
    \/ \E r \in Regs, s \in ShortTexts : FromStr(r, s)
    \/ \E r, s \in Regs : Pair(r, s)
    \/ \E r, s \in Regs : NextOf(r, s)
    \/ \E r \in Regs, k \in 1..MaxCalls : IterItem(r, k)
    \/ \E s, t \in Regs : Eq(s, t)
    \/ \E s, t \in Regs : LibEqOf(s, t)
    \/ \E s, t \in Regs : Cmp(s, t)

Spec == Init /\ [][Next]_vars

(***************************************************************************)
(* A caller that obtains indices and uses them on the array.               *)
(***************************************************************************)
NextArr ==
    \/ \E r \in Regs : Default(r)
    \/ \E r \in Regs, value \in Usize : TryFrom(r, value)
    \/ \E r \in Regs, k \in 1..MaxCalls : IterItem(r, k)
    \/ \E s \in Regs : Index(s)
    \/ \E s \in Regs, x \in Items : IndexMut(s, x)

SpecArr == Init /\ [][NextArr]_vars

(***************************************************************************)
(* A caller that holds one index i and reads and writes the array with it, *)
(* by value and by reference: m[i], m[&i], m[i] = x, m[&i] = x.            *)
(***************************************************************************)
NextWrite ==
    \/ Default("a")
    \/ \E value \in Usize : TryFrom("a", value)
    \/ Index("a")
    \/ \E x \in Items : IndexMut("a", x)
    \/ IndexRef("a")
    \/ \E x \in Items : IndexMutRef("a", x)

SpecWrite == Init /\ [][NextWrite]_vars

(***************************************************************************)
(* A program that parses one text: let c = s.parse::<C>().                 *)
(***************************************************************************)
ParseText(r, s) ==
    /\ pc = "start"
    /\ pc' = "done"
    /\ res' = [op |-> "from_str", arg |-> s, ret |-> from_str(s, SIZE)]
    /\ reg' = Store(r, from_str(s, SIZE))
    /\ UNCHANGED <<readback, buildVars, localVars, iterVars, arrVars>>

NextParse == \E r \in Regs, s \in Texts : ParseText(r, s)

SpecParse == Init /\ [][NextParse]_vars

(***************************************************************************)
(* A program that collects sequences into the array:                       *)
(* arr = src.collect::<AndexableArray>().  A panic ends the program.       *)
(***************************************************************************)
Collect(src, by_ref) ==
    /\ pc = "start"
    /\ LET ret == IF by_ref THEN from_iter_ref(src, SIZE) ELSE from_iter(src, SIZE)
       IN /\ res' = [op |-> "collect", arg |-> <<src, by_ref>>, ret |-> ret]
          /\ arr' = IF ret.tag = "Ok" THEN ret.val ELSE arr
          /\ pc' = IF ret.tag = "Panic" THEN "panicked" ELSE pc
    /\ UNCHANGED <<readback, buildVars, localVars, reg, iterVars, access>>

NextCollect == \E src \in Sources, by_ref \in BOOLEAN : Collect(src, by_ref)

SpecCollect == Init /\ [][NextCollect]_vars

(***************************************************************************)
(* A program that fills the array through iteration and reads it back:     *)
(*   for (num, i) in Andex::iter().enumerate() { arr[i] = num + 20; }      *)
(*   for (num, i) in Andex::iter().enumerate() { readback.push(arr[i]); }  *)
(* The count of enumerate() is the number of items `it` has yielded.       *)
(***************************************************************************)
\* The value written for the first index.
WriteBase == 20

\* The first loop calls Andex::iter().
StartWrite ==
    /\ pc = "start"
    /\ pc' = "write"
    /\ it' = <<IterDefault>>
    /\ it_out' = <<>>
    /\ UNCHANGED <<readback, buildVars, localVars, idxVars, lit, lit_out, arrVars>>

\* One turn of the first loop: it.next(), then arr[i] = num + 20; when the
\* iterator is exhausted the second loop calls Andex::iter().
WriteStep ==
    /\ pc = "write"
    /\ LET step == IterNext(it[1], SIZE, overflow_checks)
           num == Len(it_out)
       IN IF step.ret.tag = "Panic"
          THEN /\ pc' = "panicked"
               /\ it' = <<step.cursor>>
               /\ it_out' = Append(it_out, step.ret)
               /\ UNCHANGED arrVars
          ELSE IF IsSome(step.ret.val)
               THEN /\ pc' = pc
                    /\ it' = <<step.cursor>>
                    /\ it_out' = Append(it_out, step.ret)
                    /\ access' = Some([pos |-> index_arr(Unwrap(step.ret.val)), len |-> Len(arr)])
                    /\ arr' = SetUnchecked(arr, index_arr(Unwrap(step.ret.val)), WriteBase + num)
               ELSE /\ pc' = "read"
                    /\ it' = <<IterDefault>>
                    /\ it_out' = <<>>
                    /\ UNCHANGED arrVars
    /\ UNCHANGED <<readback, buildVars, localVars, idxVars, lit, lit_out>>

\* One turn of the second loop: it.next(), then the read of arr[i].
ReadStep ==
    /\ pc = "read"
    /\ LET step == IterNext(it[1], SIZE, overflow_checks)
       IN IF step.ret.tag = "Panic"
          THEN /\ pc' = "panicked"
               /\ it' = <<step.cursor>>
               /\ it_out' = Append(it_out, step.ret)
               /\ UNCHANGED <<readback, access>>
          ELSE IF IsSome(step.ret.val)
               THEN /\ pc' = pc
                    /\ it' = <<step.cursor>>
                    /\ it_out' = Append(it_out, step.ret)
                    /\ access' = Some([pos |-> index_arr(Unwrap(step.ret.val)), len |-> Len(arr)])
                    /\ \E got \in GetUnchecked(arr, index_arr(Unwrap(step.ret.val))) :
                          readback' = Append(readback, got.val)
               ELSE /\ pc' = "done"
                    /\ UNCHANGED <<it, it_out, readback, access>>
    /\ UNCHANGED <<buildVars, localVars, idxVars, lit, lit_out, arr>>

NextLoop ==
    \/ StartWrite
    \/ WriteStep
    \/ ReadStep

SpecLoop == Init /\ [][NextLoop]_vars

(***************************************************************************)
(* The iterators, call by call.                                            *)
(***************************************************************************)
\* Andex::iter() of andex.rs
Iter ==
    /\ it' = <<IterDefault>>
    /\ it_out' = <<>>
    /\ UNCHANGED <<progVars, buildVars, localVars, idxVars, lit, lit_out, arrVars>>

\* it.next() of andex.rs
ItNext ==
    /\ it # <<>>
    /\ Len(it_out) < MaxCalls
    /\ LET step == IterNext(it[1], SIZE, overflow_checks)
       IN /\ it' = <<step.cursor>>
          /\ it_out' = Append(it_out, step.ret)
    /\ UNCHANGED <<progVars, buildVars, localVars, idxVars, lit, lit_out, arrVars>>

\* Andex::iter() of lib.rs
LibIter ==
    /\ lit' = <<LibIterDefault>>
    /\ lit_out' = <<>>
    /\ UNCHANGED <<progVars, buildVars, localVars, idxVars, it, it_out, arrVars>>

\* it.next() of lib.rs
LibItNext ==
    /\ lit # <<>>
    /\ Len(lit_out) < MaxCalls
    /\ LET step == LibIterNext(lit[1], SIZE)
       IN /\ lit' = <<step.cursor>>
          /\ lit_out' = Append(lit_out, step.ret)
    /\ UNCHANGED <<progVars, buildVars, localVars, idxVars, it, it_out, arrVars>>

NextIter ==
    \/ Iter
    \/ ItNext
    \/ LibIter
    \/ LibItNext

SpecIter == Init /\ [][NextIter]_vars

(***************************************************************************)
(* A program holding two iterators of andex.rs at once:                    *)
(*   let mut it = MyIdx::iter(); let mut it2 = MyIdx::iter();              *)
(* and calling next on them in any order.                                  *)
(***************************************************************************)
\* another call of Andex::iter() of andex.rs
Iter2 ==
    /\ it2' = <<IterDefault>>
    /\ it2_out' = <<>>
    /\ UNCHANGED <<progVars, buildVars, plain, idxVars, iterVars, arrVars>>

\* it2.next() of andex.rs
It2Next ==
    /\ it2 # <<>>
    /\ Len(it2_out) < MaxCalls
    /\ LET step == IterNext(it2[1], SIZE, overflow_checks)
       IN /\ it2' = <<step.cursor>>
          /\ it2_out' = Append(it2_out, step.ret)
    /\ UNCHANGED <<progVars, buildVars, plain, idxVars, iterVars, arrVars>>

NextTwo ==
    \/ Iter
    \/ ItNext
    \/ Iter2
    \/ It2Next

SpecTwo == Init /\ [][NextTwo]_vars

(***************************************************************************)
(* A program that converts between a plain array and the wrapper:          *)
(*   let mut m = MyArray::from(a); m.as_mut()[p] = x; m[i];                *)
(*   let back = <[Item; SIZE]>::from(m);                                   *)
(* `arr` is the field .1 of the wrapper m.                                 *)
(***************************************************************************)
\* struct AndexableArray(PhantomData<A>, [Item; SIZE])
AndexableArray(array) == <<PhantomData, array>>

\* impl From<[Item; SIZE]> for AndexableArray: Self(PhantomData, array)
from_array(array) == AndexableArray(array)

\* impl From<&[Item; SIZE]> for AndexableArray: Self(PhantomData, *array)
from_array_ref(array) == AndexableArray(array)

\* impl From<AndexableArray> for [Item; SIZE]: andexable_array.1
into_array(andexable_array) == andexable_array[2]

\* impl From<&AndexableArray> for [Item; SIZE]: andexable_array.1
into_array_ref(andexable_array) == andexable_array[2]

\* impl AsMut<[Item; SIZE]> for AndexableArray: &mut self.1
as_mut(array) == array

\* array[p] = x on a plain array: bounds-checked by the language
ArraySet(array, p, x) ==
    IF p < Len(array)
    THEN Ok([array EXCEPT ![p + 1] = x])
    ELSE Panic("index out of bounds")

\* The plain arrays of SIZE items.
PlainArrays(size) == [1..size -> Items]

\* let mut m = MyArray::from(a)  or  MyArray::from(&a)
FromArray(a, by_ref) ==
    /\ pc = "start"
    /\ pc' = "wrapped"
    /\ plain' = Some(a)
    /\ LET m == IF by_ref THEN from_array_ref(a) ELSE from_array(a)
       IN /\ arr' = m[2]
          /\ res' = [op |-> "from", arg |-> <<a, by_ref>>, ret |-> Ok(as_ref(m[2]))]
    /\ UNCHANGED <<readback, it2, it2_out, buildVars, reg, iterVars, access>>

\* m.as_mut()[p] = x
AsMutWrite(p, x) ==
    /\ pc = "wrapped"
    /\ LET ret == ArraySet(as_mut(arr), p, x)
       IN /\ res' = [op |-> "as_mut", arg |-> <<p, x>>, ret |-> ret]
          /\ arr' = IF ret.tag = "Ok" THEN ret.val ELSE arr
          /\ pc' = IF ret.tag = "Ok" THEN "written" ELSE "panicked"
    /\ UNCHANGED <<readback, localVars, buildVars, reg, iterVars, access>>

\* let back = <[Item; SIZE]>::from(m)  or  <[Item; SIZE]>::from(&m)
IntoArray(by_ref) ==
    /\ pc \in {"wrapped", "written"}
    /\ pc' = "done"
    /\ LET back == IF by_ref THEN into_array_ref(AndexableArray(arr))
                             ELSE into_array(AndexableArray(arr))
       IN /\ readback' = back
          /\ res' = [op |-> "into", arg |-> <<by_ref, pc = "written">>, ret |-> Ok(back)]
    /\ UNCHANGED <<localVars, buildVars, reg, iterVars, arrVars>>

NextConv ==
    \/ Default("a")
    \/ \E value \in Usize : TryFrom("a", value)
    \/ \E a \in PlainArrays(SIZE), by_ref \in BOOLEAN : FromArray(a, by_ref)
    \/ \E p \in 0..MaxSize, x \in Items : AsMutWrite(p, x)
    \/ Index("a")
    \/ \E by_ref \in BOOLEAN : IntoArray(by_ref)

SpecConv == Init /\ [][NextConv]_vars

(***************************************************************************)
(* The build of a program that indexes the array: m[i] or m[&i], with      *)
(* m : AndexableArray<Andex<MarkerA, SIZE>, u32, SIZE> and i of some type. *)
(* The compiler accepts the expression when an impl of Index for the type  *)
(* of m unifies with the type of i; only an accepted program runs.         *)
(***************************************************************************)
\* The marker types of the doc examples: MyIdxMarker and TheirIdxMarker.
Markers == {"MarkerA", "MarkerB"}

\* The type Andex<marker, size>, and the type usize.
AndexTy(marker, size) == [kind |-> "Andex", marker |-> marker, size |-> size]
UsizeTy == [kind |-> "usize", marker |-> "none", size |-> 0]

\* The type AndexableArray<index_ty, Item, size>.
ArrayTy(index_ty, size) == [index |-> index_ty, size |-> size]

\* The types an index expression can have: by value or by reference.
IndexExprTypes ==
    {[ref |-> by_ref, ty |-> t] :
        by_ref \in BOOLEAN,
        t \in {AndexTy(m, n) : m \in Markers, n \in 0..MaxSize} \cup {UsizeTy}}

\* impl<A, Item, const SIZE: usize> ops::Index<Andex<A, SIZE>> (and IndexMut)
\*     for AndexableArray<Andex<A, SIZE>, Item, SIZE>
ImplIndexAndex(self_ty, idx_ty) ==
    \E A \in Markers, S \in 0..MaxSize :
        /\ idx_ty = [ref |-> FALSE, ty |-> AndexTy(A, S)]
        /\ self_ty = ArrayTy(AndexTy(A, S), S)

\* impl<A, Item, const SIZE: usize> ops::Index<&Andex<A, SIZE>> (and IndexMut)
\*     for AndexableArray<Andex<A, SIZE>, Item, SIZE>
ImplIndexAndexRef(self_ty, idx_ty) ==
    \E A \in Markers, S \in 0..MaxSize :
        /\ idx_ty = [ref |-> TRUE, ty |-> AndexTy(A, S)]
        /\ self_ty = ArrayTy(AndexTy(A, S), S)

\* (mutant of IndexResolves: the impls are generic in the marker of the index)
IndexResolvesAnyMarker(self_ty, idx_ty) ==
    \E A \in Markers, B \in Markers, S \in 0..MaxSize :
        /\ idx_ty.ty = AndexTy(B, S)
        /\ self_ty = ArrayTy(AndexTy(A, S), S)

\* Trait selection for self_ty[idx_ty]: one of the impls of Index unifies.
IndexResolves(self_ty, idx_ty) ==
    \/ ImplIndexAndex(self_ty, idx_ty)
    \/ ImplIndexAndexRef(self_ty, idx_ty)

\* The type of the array of the program.
MyArrayTy == ArrayTy(AndexTy("MarkerA", SIZE), SIZE)

\* cargo build of the program whose index expression has type idx_ty
BuildIndexExpr(idx_ty) ==
    /\ pc = "start"
    /\ LET accepted == IndexResolves(MyArrayTy, idx_ty)
       IN /\ res' = [op |-> "build", arg |-> idx_ty,
                     ret |-> IF accepted
                             THEN Ok(<<>>)
                             ELSE BuildError("the trait bound Index<_> is not satisfied")]
          /\ pc' = IF accepted THEN "built" ELSE "rejected"
    /\ UNCHANGED <<readback, localVars, buildVars, reg, iterVars, arrVars>>

\* The accepted program runs: it obtains an index and indexes the array.
RunBuilt ==
    /\ pc = "built"
    /\ \/ \E value \in Usize : TryFrom("a", value)
       \/ Index("a")
       \/ \E x \in Items : IndexMut("a", x)

NextBuild ==
    \/ \E idx_ty \in IndexExprTypes : BuildIndexExpr(idx_ty)
    \/ RunBuilt

SpecBuild == Init /\ [][NextBuild]_vars

(***************************************************************************)
(* Properties.                                                             *)
(***************************************************************************)
\* The indices the caller holds.
Held == {Unwrap(reg[r]) : r \in {q \in Regs : IsSome(reg[q])}}

\* C1: every index the caller can obtain through the public operations
\* holds a stored value v with 0 <= v < SIZE.
C1_RangeInvariant == \A i \in Held : 0 <= UsizeFrom(i) /\ UsizeFrom(i) < SIZE

\* C2: every get_unchecked / get_unchecked_mut call made by index / index_mut
\* is at a position strictly less than the length SIZE of the backing array.
C2_IndexInBounds ==
    IsSome(access) => Unwrap(access).len = SIZE /\ Unwrap(access).pos < Unwrap(access).len

\* C3: try_from(v) succeeds if and only if v < SIZE, and then usize::from of
\* the index it returns is exactly v.
C3_TryFromRoundTrip ==
    res.op = "try_from" =>
        /\ (res.ret.tag = "Ok") <=> (res.arg < SIZE)
        /\ res.arg < SIZE => res.ret.tag = "Ok" /\ UsizeFrom(res.ret.val) = res.arg
C3_Witness ==
    /\ res.op = "try_from" /\ res.arg > 0 /\ res.ret.tag = "Ok"
    /\ \E r \in Regs : reg[r] = Some(Andex(res.arg))

\* C4: for v >= SIZE, try_from(v) returns Err(OutOfBounds) with value = v and
\* size = SIZE (it does not panic), and the caller gets no index from it.
C4_TryFromFailure ==
    [][(res'.op = "try_from" /\ res'.arg >= SIZE) =>
          /\ res'.ret.tag = "Err"
          /\ res'.ret.val.kind = "OutOfBounds"
          /\ res'.ret.val.value = res'.arg
          /\ res'.ret.val.size = SIZE
          /\ reg' = reg]_vars
C4_Witness ==
    res.op = "try_from" /\ res.arg > SIZE /\ SIZE > 0 /\ res.ret.tag = "Err"

\* C5: when SIZE = 0 no public operation yields an index to the caller.
C5_NoIndexOfSizeZero == SIZE = 0 => Held = {}

\* C6: the calls of next on a fresh iter() return Some(0), ..., Some(SIZE-1)
\* in this order, then None, and none of them panics.
C6_IterationComplete ==
    \A k \in 1..Len(it_out) :
        it_out[k] = IF k <= SIZE THEN Ok(Some(Andex(k - 1))) ELSE Ok(None)

\* C7: once a call of next has returned None, every later call of next on the
\* same iterator returns None (in andex.rs and in lib.rs).
Fused(out) ==
    \A j, k \in 1..Len(out) : (j < k /\ out[j] = Ok(None)) => out[k] = Ok(None)
C7_Fused == Fused(it_out) /\ Fused(lit_out)
C7_Witness ==
    /\ \E j \in 2..Len(it_out) : it_out[j - 1] = Ok(None) /\ it_out[j] = Ok(None)
    /\ \E j \in 2..Len(lit_out) : lit_out[j - 1] = Ok(None) /\ lit_out[j] = Ok(None)
    /\ SIZE > 0

\* C8 (as stated): every call new::<V>() with V >= SIZE fails at build time.
C8_AlwaysBuildError ==
    (res.op = "new" /\ res.arg[1] >= SIZE) => res.ret.tag = "BuildError"
\* C8 (amended): a call new::<V>() with V >= SIZE fails at build time when it
\* is evaluated in a const context and panics when it is evaluated at run
\* time; it never returns an index.
C8_BuildErrorInConst ==
    (res.op = "new" /\ res.arg[1] >= SIZE) =>
        res.ret.tag = (IF res.arg[2] THEN "BuildError" ELSE "Panic")
C8_Witness ==
    res.op = "new" /\ res.arg[1] >= SIZE /\ res.arg[2] /\ res.ret.tag = "BuildError"

\* C9: new::<V>() evaluated at run time returns an index of value V when
\* V < SIZE, and panics, leaving the caller without an index of value V,
\* when V >= SIZE.
C9_NewAtRunTime ==
    [][(res'.op = "new" /\ ~res'.arg[2]) =>
          IF res'.arg[1] < SIZE
          THEN res'.ret.tag = "Ok" /\ UsizeFrom(res'.ret.val) = res'.arg[1]
          ELSE res'.ret.tag = "Panic" /\ reg' = reg]_vars
C9_Witness ==
    /\ res.op = "new" /\ ~res.arg[2] /\ res.ret.tag = "Panic"
    /\ \E r \in Regs : IsSome(reg[r]) /\ UsizeFrom(Unwrap(reg[r])) > 0

\* C10: a == b holds if and only if the stored values of a and b are equal
\* (with the PartialEq of andex.rs and with the PartialEq of lib.rs).
C10_Equality ==
    res.op \in {"eq", "lib_eq"} =>
        (res.ret.val <=> (UsizeFrom(res.arg[1]) = UsizeFrom(res.arg[2])))

\* C11: a < b if and only if usize::from(a) < usize::from(b), a <= a always,
\* and cmp is the natural order of the stored values.
C11_Ordering ==
    res.op = "cmp" =>
        LET a == UsizeFrom(res.arg[1])
            b == UsizeFrom(res.arg[2])
        IN /\ res.ret.val.lt <=> (a < b)
           /\ res.ret.val.le <=> (a <= b)
           /\ (res.arg[1] = res.arg[2]) => res.ret.val.le
           /\ (res.ret.val.ord = "Less") <=> (a < b)
           /\ (res.ret.val.ord = "Equal") <=> (a = b)
           /\ (res.ret.val.ord = "Greater") <=> (a > b)
C11_Witness ==
    /\ res.op = "cmp" /\ res.ret.val.lt
    /\ UsizeFrom(res.arg[1]) < UsizeFrom(res.arg[2])
    /\ UsizeFrom(res.arg[2]) < SIZE

\* A valid index: its stored value is below SIZE.
Valid(i) == UsizeFrom(i) < SIZE

\* C12: for SIZE >= 1 and a valid index x, pair applied to pair(x) returns x.
C12_PairInvolution ==
    [][(/\ SIZE >= 1
        /\ res.op = "pair" /\ Valid(res.arg) /\ res.ret.tag = "Ok"
        /\ res'.op = "pair" /\ res'.arg = res.ret.val)
       => res'.ret = Ok(res.arg)]_vars
C12_Witness ==
    /\ SIZE >= 2
    /\ res.op = "pair" /\ res.arg = Andex(SIZE - 1) /\ res.ret = Ok(Andex(0))
    /\ reg["a"] = Some(Andex(SIZE - 1)) /\ reg["b"] = Some(Andex(0))

\* C13: for SIZE >= 1 and a valid index of value v, pair returns (without
\* panic) a valid index of value SIZE - 1 - v; pair(FIRST) is LAST and
\* pair(LAST) is FIRST.
C13_PairMirrors ==
    (res.op = "pair" /\ SIZE >= 1 /\ Valid(res.arg)) =>
        /\ res.ret.tag = "Ok"
        /\ UsizeFrom(res.ret.val) = SIZE - 1 - UsizeFrom(res.arg)
        /\ Valid(res.ret.val)
        /\ (res.arg = FIRST.val) => res.ret = LAST(SIZE)
        /\ (res.arg = LAST(SIZE).val) => res.ret = FIRST
C13_Witness ==
    /\ res.op = "pair" /\ SIZE >= 3 /\ res.arg = FIRST.val
    /\ res.ret.tag = "Ok" /\ UsizeFrom(res.ret.val) = SIZE - 1

\* C14: next(self) on an index of value v returns Some(index of value v + 1)
\* if v + 1 < SIZE and None otherwise, without arithmetic overflow.
C14_Successor ==
    res.op = "next" =>
        res.ret = IF UsizeFrom(res.arg) + 1 < SIZE
                  THEN Ok(Some(Andex(UsizeFrom(res.arg) + 1)))
                  ELSE Ok(None)

\* The decimal digits, and the texts made of one or more of them.
DecimalDigits == {"0", "1", "2", "3", "4", "5", "6", "7", "8", "9"}
AllDigits(s) == Len(s) >= 1 /\ \A k \in 1..Len(s) : s[k] \in DecimalDigits
\* The number a text of digits denotes.
RECURSIVE DecimalValue(_)
DecimalValue(s) ==
    IF s = <<>>
    THEN 0
    ELSE 10 * DecimalValue(SubSeq(s, 1, Len(s) - 1)) + ToDigit(s[Len(s)])

\* C15: from_str is usize::from_str followed by try_from: a text that is an
\* integer n gives Ok(index of value n) when n < SIZE and Err(OutOfBounds)
\* when n >= SIZE; a text that is not an integer gives Err(ParseIntError),
\* never OutOfBounds.
C15_ParseComposes ==
    res.op = "from_str" =>
        LET n == UsizeFromStr(res.arg) IN
        /\ (AllDigits(res.arg) /\ DecimalValue(res.arg) <= MaxUsize)
              => n = Ok(DecimalValue(res.arg))
        /\ (\E k \in 1..Len(res.arg) : res.arg[k] \in {"a", " ", "-"}) => n.tag = "Err"
        /\ res.arg = <<>> => n.tag = "Err"
        /\ n.tag = "Ok" => res.ret = try_from(n.val, SIZE)
        /\ (n.tag = "Ok" /\ n.val < SIZE)
              => res.ret.tag = "Ok" /\ UsizeFrom(res.ret.val) = n.val
        /\ (n.tag = "Ok" /\ n.val >= SIZE) => res.ret = Err(OutOfBounds(n.val, SIZE))
        /\ n.tag = "Err" => res.ret.tag = "Err" /\ res.ret.val.kind = "ParseIntError"
C15_Witness ==
    /\ res.op = "from_str" /\ Len(res.arg) = 2 /\ AllDigits(res.arg)
    /\ res.ret.tag = "Ok" /\ UsizeFrom(res.ret.val) >= 1

\* C16 (as stated): every text of digits whose value is >= SIZE, however
\* large, makes from_str fail with OutOfBounds.
C16_DigitsNeverParseError ==
    (res.op = "from_str" /\ AllDigits(res.arg) /\ DecimalValue(res.arg) >= SIZE) =>
        res.ret.tag = "Err" /\ res.ret.val.kind = "OutOfBounds"
\* C16 (amended): a text of digits whose value is >= SIZE fails with
\* OutOfBounds when the value fits usize, and with ParseIntError (overflow)
\* when it does not.
C16_DigitsOutOfBounds ==
    (res.op = "from_str" /\ AllDigits(res.arg) /\ DecimalValue(res.arg) >= SIZE) =>
        /\ res.ret.tag = "Err"
        /\ IF DecimalValue(res.arg) <= MaxUsize
           THEN /\ res.ret.val.kind = "OutOfBounds"
                /\ res.ret.val.value = DecimalValue(res.arg)
                /\ res.ret.val.size = SIZE
           ELSE /\ res.ret.val.kind = "ParseIntError"
                /\ res.ret.val.value = "PosOverflow"
C16_Witness ==
    /\ res.op = "from_str" /\ AllDigits(res.arg) /\ SIZE >= 1
    /\ DecimalValue(res.arg) >= SIZE /\ DecimalValue(res.arg) <= MaxUsize
    /\ res.ret.tag = "Err" /\ res.ret.val.kind = "OutOfBounds"

\* C17 (as stated): from_str accepts only texts made of digits; a text with
\* a sign or a leading '+' is not accepted.
C17_OnlyDigitsAccepted ==
    (res.op = "from_str" /\ res.ret.tag = "Ok") => AllDigits(res.arg)
\* C17 (amended): from_str accepts only texts made of digits, optionally
\* preceded by one '+' (which is ignored); a text with a '-' is not accepted.
C17_DigitsWithOptionalPlus ==
    res.op = "from_str" =>
        /\ res.ret.tag = "Ok" =>
              \/ AllDigits(res.arg)
              \/ Head(res.arg) = "+" /\ AllDigits(Tail(res.arg))
        /\ (\E k \in 1..Len(res.arg) : res.arg[k] = "-") =>
              res.ret.tag = "Err" /\ res.ret.val.kind = "ParseIntError"
        /\ (Len(res.arg) >= 2 /\ Head(res.arg) = "+" /\ AllDigits(Tail(res.arg)))
              => res.ret = from_str(Tail(res.arg), SIZE)
C17_Witness ==
    /\ res.op = "from_str" /\ res.arg = <<"+", "1">>
    /\ res.ret = Ok(Andex(1))

\* C18: collecting a sequence of exactly SIZE items succeeds and the array
\* holds the items in the original order, as seen through as_ref and through
\* iteration.
C18_CollectLaw ==
    (res.op = "collect" /\ Len(res.arg[1]) = SIZE) =>
        /\ res.ret.tag = "Ok"
        /\ pc = "start"
        /\ Len(arr) = SIZE
        /\ \A k \in 1..SIZE : arr[k] = res.arg[1][k]
        /\ as_ref(arr) = res.arg[1]
        /\ ArrayIter(arr) = res.arg[1]
C18_Witness ==
    /\ res.op = "collect" /\ SIZE >= 2 /\ Len(res.arg[1]) = SIZE
    /\ res.arg[1][1] # res.arg[1][SIZE]
    /\ res.ret.tag = "Ok" /\ as_ref(arr) = res.arg[1]

\* C19: collecting a sequence of fewer or more than SIZE items panics: no
\* array is returned, nothing is truncated or padded.
C19_CollectOrPanic ==
    [][(res'.op = "collect" /\ Len(res'.arg[1]) # SIZE) =>
          /\ res'.ret = IF Len(res'.arg[1]) < SIZE
                        THEN Panic("iterator too short for andexable type")
                        ELSE Panic("iterator too long for andexable type")
          /\ pc' = "panicked"
          /\ arr' = arr]_vars
C19_Witness ==
    /\ res.op = "collect" /\ SIZE >= 1 /\ Len(res.arg[1]) = SIZE + 1
    /\ res.ret.tag = "Panic" /\ pc = "panicked"

\* C20: starting from the default-filled array, after arr[pos_k] = 20 + k for
\* the k-th index of iter(), reading arr[pos_k] over a fresh iter() yields
\* 20, 21, ..., 20 + SIZE - 1 in this order (the program does not panic).
C20_WriteThenRead ==
    /\ pc # "panicked"
    /\ pc = "done" => readback = [k \in 1..SIZE |-> WriteBase + k - 1]

\* C21: plain-array conversions are lossless and agree with indexing:
\* from(a) (by value or by reference) has as_ref() equal to a, converting back
\* returns the array unchanged, a write through as_mut at position p lands
\* in slot p, and for every index i the element arr[i] is the element at
\* position usize::from(i) of the array exposed by as_ref.
C21_ConversionsLossless ==
    /\ res.op = "from" => as_ref(arr) = res.arg[1]
    /\ res.op = "into" =>
          /\ res.ret.val = as_ref(arr)
          /\ ~res.arg[2] => res.ret.val = Unwrap(plain)
    /\ (res.op = "as_mut" /\ res.ret.tag = "Ok") =>
          as_ref(arr)[res.arg[1] + 1] = res.arg[2]
    /\ res.op = "index" =>
          /\ res.ret.tag = "Ok"
          /\ UsizeFrom(res.arg) < Len(as_ref(arr))
          /\ res.ret.val = as_ref(arr)[UsizeFrom(res.arg) + 1]

\* C22: type-level isolation: an array bound to the index type
\* (MarkerA, SIZE) cannot be indexed by an index of type (MarkerB, SIZE), nor
\* by a raw usize, although the sizes match: the program is rejected at build
\* time, and a run-time access happens only in a program that was accepted.
C22_TypeIsolation ==
    /\ (/\ res.op = "build"
        /\ \/ res.arg.ty = UsizeTy
           \/ res.arg.ty = AndexTy("MarkerB", SIZE)) =>
          /\ res.ret.tag = "BuildError"
          /\ pc = "rejected"
          /\ access = None
    /\ pc = "rejected" => access = None
    /\ IsSome(access) => pc = "built"

\* The program indexing with an index of the other marker and the same size
\* has been rejected.
C22_Witness ==
    /\ SIZE >= 1
    /\ res.op = "build"
    /\ res.arg.ty = AndexTy("MarkerB", SIZE)
    /\ res.ret.tag = "BuildError"
    /\ pc = "rejected"

\* What a fresh andex.rs iterator has returned after Len(out) calls of next:
\* Some(0), ..., Some(SIZE-1), then None.
YieldsAll(out) ==
    \A k \in 1..Len(out) :
        /\ out[k].tag = "Ok"
        /\ out[k].val = IF k <= SIZE THEN Some(Andex(k - 1)) ELSE None

\* An iterator that has not been advanced is positioned at 0.
Fresh(iter, out) == (iter # <<>> /\ out = <<>>) => iter = <<Some(Andex(0))>>

\* C23: iterators are fresh and independent: every call of iter() returns an
\* iterator positioned at 0, a step of one iterator leaves the position and
\* the output of the other unchanged, and two iterators interleaved in any
\* order each still yield 0..SIZE-1.
C23_FreshIndependent ==
    /\ [](Fresh(it, it_out) /\ Fresh(it2, it2_out))
    /\ [][/\ <<it, it_out>>' # <<it, it_out>> => <<it2, it2_out>>' = <<it2, it2_out>>
          /\ <<it2, it2_out>>' # <<it2, it2_out>> => <<it, it_out>>' = <<it, it_out>>]_vars
    /\ [](YieldsAll(it_out) /\ YieldsAll(it2_out))

\* C24: indexed write frame: for every valid index i an assignment
\* arr[i] = x, or arr[&i] = x, changes exactly the slot at position
\* usize::from(i) to x and leaves every other slot and the element count SIZE
\* unchanged; indexing by &i reads the same slot as indexing by i.
C24_WriteFrame ==
    [][/\ (/\ res'.op \in {"index_mut", "index_mut_ref"}
           /\ UsizeFrom(res'.arg[1]) < SIZE) =>
             /\ Len(arr') = SIZE
             /\ Len(arr) = SIZE
             /\ \A k \in 1..SIZE :
                   arr'[k] = IF k = UsizeFrom(res'.arg[1]) + 1 THEN res'.arg[2] ELSE arr[k]
       /\ (/\ res'.op \in {"index", "index_ref"}
           /\ UsizeFrom(res'.arg) < SIZE) =>
             /\ arr' = arr
             /\ res'.ret.tag = "Ok"
             /\ res'.ret.val = arr[UsizeFrom(res'.arg) + 1]]_<<arr, access, res.op>>

\* A valid index of an array of two or more slots has been written through a
\* reference, and another slot still holds another item.
C24_Witness ==
    /\ res.op = "index_mut_ref"
    /\ UsizeFrom(res.arg[1]) < SIZE
    /\ arr[UsizeFrom(res.arg[1]) + 1] = res.arg[2]
    /\ \E k \in 1..SIZE : k # UsizeFrom(res.arg[1]) + 1 /\ arr[k] # res.arg[2]

\* C25: the iterator of andex.rs and the iterator of lib.rs return the same
\* sequence of results: the same Some(value) or None at every call of next,
\* for every SIZE.
C25_IteratorsEquivalent ==
    \A k \in 1..Len(it_out) :
        k <= Len(lit_out) =>
            /\ it_out[k].tag = lit_out[k].tag
            /\ it_out[k].val = lit_out[k].val

====
